---- MODULE Spec2Model ----
(***************************************************************************)
(* Blog backend: the post and comment request handlers of                  *)
(* controllers/postController.js over the two collections declared in      *)
(* models/Comment.js (CommentSchema, PostSchema).                          *)
(*                                                                         *)
(* Every handler is an async function.  Between two awaits the handler     *)
(* runs alone; at an await the store may be read and written by any other  *)
(* request.  A handler is therefore modelled as one action per database    *)
(* operation it awaits, each action holding the operation and the code     *)
(* that runs before it (from the previous await, or from the handler's      *)
(* entry) and after it (up to the next await, or the response).  A request *)
(* is in flight, in reqs, between two of its database operations.          *)
(* createPost awaits one operation only; its entry is an action of its own *)
(* so that two createPost requests can be seen in flight together.         *)
(***************************************************************************)
EXTENDS Integers, Sequences, FiniteSets, TLC

\* ------------------------------------------------------------------ bounds
MaxInFlight == 2          \* requests in flight at once
MaxRequests == 4          \* requests received in a run of the post handlers
MaxCommentRequests == 2   \* requests received in a run of the comment handlers
MaxCreateRequests == 3    \* requests received in a run of createPost/deletePost
MaxPosts == 2             \* post ids handed out
MaxComments == 5          \* comment ids handed out
MaxInitViews == 1         \* views of the post stored at the start
MaxStoredPosts == 5       \* posts in a store that getTrendingPosts ranks
MaxLimit == 2             \* largest ?limit= given to getTrendingPosts
MaxTrendingRequests == 1  \* getTrendingPosts requests in a run
MaxTitleLen == 5          \* length of a title whose slug is derived

\* ------------------------------------------------------------- identifiers
\* An ObjectId is a positive integer; ids are never reused.
Null == 0
Malformed == -1
Users == {1, 2}
NoUser == Null

RangeOf(s) == {s[i] : i \in 1..Len(s)}
Count(s, x) == Cardinality({i \in 1..Len(s) : s[i] = x})

\* --------------------------------------------------------------- strings
\* A string is a sequence of one-character strings.
LowerChars == {"a", "b", "d", "e", "h", "l", "o", "r", "w"}
UpperChars == {"A", "B", "H", "W"}
DigitChars == {"0", "1"}
OtherChars == {"-", " ", "!", ","}
Chars == LowerChars \cup UpperChars \cup DigitChars \cup OtherChars

ToLowerChar(c) ==
    CASE c = "A" -> "a"
      [] c = "B" -> "b"
      [] c = "H" -> "h"
      [] c = "W" -> "w"
      [] OTHER -> c

ToLowerCase(s) == [i \in 1..Len(s) |-> ToLowerChar(s[i])]

IsSlugChar(c) == c \in LowerChars \cup DigitChars

\* s.replace(/[^a-z0-9]+/g, '-')
RECURSIVE ReplaceRuns(_)
ReplaceRuns(s) ==
    IF s = <<>> THEN <<>>
    ELSE IF IsSlugChar(Head(s)) THEN <<Head(s)>> \o ReplaceRuns(Tail(s))
    ELSE IF Len(s) > 1 /\ ~IsSlugChar(s[2]) THEN ReplaceRuns(Tail(s))
    ELSE <<"-">> \o ReplaceRuns(Tail(s))

\* (StripHyphens without the -$ alternative)
StripLeadingHyphen(s) == IF s # <<>> /\ Head(s) = "-" THEN Tail(s) ELSE s

\* s.replace(/(^-|-$)/g, '')
StripHyphens(s) ==
    LET a == IF s # <<>> /\ Head(s) = "-" THEN Tail(s) ELSE s
    IN  IF a # <<>> /\ a[Len(a)] = "-" THEN SubSeq(a, 1, Len(a) - 1) ELSE a

Slugify(title) == StripHyphens(ReplaceRuns(ToLowerCase(title)))

IsSpace(c) == c = " "

\* String.prototype.trim
RECURSIVE TrimLeft(_)
TrimLeft(s) == IF s # <<>> /\ IsSpace(Head(s)) THEN TrimLeft(Tail(s)) ELSE s

RECURSIVE TrimRight(_)
TrimRight(s) ==
    IF s # <<>> /\ IsSpace(s[Len(s)]) THEN TrimRight(SubSeq(s, 1, Len(s) - 1)) ELSE s

Trim(s) == TrimRight(TrimLeft(s))

\* A JSON body field: absent, a string, or a value of another type.
Undefined == [kind |-> "undefined"]
Str(s) == [kind |-> "string", s |-> s]
Num(n) == [kind |-> "number", n |-> n]

\* JavaScript truthiness of a body field
Truthy(x) ==
    CASE x.kind = "undefined" -> FALSE
      [] x.kind = "string" -> x.s # <<>>
      [] x.kind = "number" -> x.n # 0

\* ------------------------------------------------------------------ state
VARIABLES
    posts,      \* the posts collection: _id -> document
    comments,   \* the comments collection: _id -> document
    nextPost,   \* the next fresh post _id
    nextComment,\* the next fresh comment _id
    now,        \* Date.now(), in hours
    reqs,       \* the requests in flight: slot -> request
    budget,     \* number of requests the run may still receive
    resp,       \* the response sent last
    hist        \* history of the writes to each post (not program state)

vars == <<posts, comments, nextPost, nextComment, now, reqs, budget, resp, hist>>

Slots == 1..MaxInFlight
Idle == [op |-> "idle"]
NoResp == [op |-> "none", status |-> 0]

PostIds == DOMAIN posts
CommentIds == DOMAIN comments

\* f without the keys in S
Without(f, S) == [k \in (DOMAIN f) \ S |-> f[k]]
With(f, k, v) == [x \in (DOMAIN f) \cup {k} |-> IF x = k THEN v ELSE f[x]]

\* A slot a request may take when it is received: the lowest idle one.
FreeSlot(s) ==
    /\ budget > 0
    /\ reqs[s] = Idle
    /\ \A t \in Slots : t < s => reqs[t] # Idle

\* res.status(...).json(...): the request is over
Done(s, r) ==
    /\ reqs' = [reqs EXCEPT ![s] = Idle]
    /\ resp' = r

\* the handler awaits its next database operation
Await(s, r) ==
    /\ reqs' = [reqs EXCEPT ![s] = r]
    /\ UNCHANGED resp

\* ------------------------------------------------------------ documents
\* PostSchema.  Fields that no handler's control flow reads (content_html,
\* excerpt, cover_image, tags, category, updated_at) are not carried.
NewPost(title, slug, author, status, createdAt) ==
    [title |-> title, slug |-> slug, author |-> author, status |-> status,
     views |-> 0, likes |-> <<>>, v |-> 0, created_at |-> createdAt]

\* CommentSchema
NewComment(post, user, content, parent) ==
    [post |-> post, user |-> user, content |-> content, parent |-> parent]

\* What hist keeps for a post: the number of writes applied to it, the number
\* of getPostById saves among them, its views when the history began, and the
\* last likePost save with the one before it.
NoEvent == [op |-> "none"]
NewHist(views0) == [writes |-> 0, gets |-> 0, views0 |-> views0, last |-> NoEvent]
Flat(e) == IF e.op = "like" THEN [e EXCEPT !.prev = NoEvent] ELSE e

\* ------------------------------------------------------- inputs of requests
Titles == {<<"a">>, <<"A", "!">>, <<"b">>, <<"!">>}
TitleInputs == {Undefined} \cup {Str(t) : t \in Titles}
ContentInputs == {Undefined, Str(<<"a">>)}
PostIdInputs == (1..MaxPosts) \cup {Malformed}

\* Titles of up to MaxTitleLen characters: a lower-case letter, an upper-case
\* letter, a digit, a hyphen and a space.
TitleChars == {"a", "A", "0", "-", " "}
RECURSIVE StringsOfLen(_)
StringsOfLen(n) ==
    IF n = 0 THEN {<<>>}
    ELSE {<<c>> \o t : c \in TitleChars, t \in StringsOfLen(n - 1)}
SlugTitles == UNION {StringsOfLen(n) : n \in 0..MaxTitleLen}
SlugTitleInputs == {Undefined} \cup {Str(t) : t \in SlugTitles}

\* =================================================================== posts
\* ---- getPostById (GET /api/posts/:id, no auth gate: req.user is not set)
UserHasLiked(user, likes) == IF user # NoUser THEN user \in RangeOf(likes) ELSE FALSE

GetPostByIdFind(s, id) ==
    /\ FreeSlot(s)
    /\ budget' = budget - 1
    /\ IF id = Malformed
         THEN Done(s, [op |-> "getPostById", status |-> 500, message |-> "CastError"])
       ELSE IF id \notin PostIds
         THEN Done(s, [op |-> "getPostById", status |-> 404, message |-> "Post not found"])
       ELSE Await(s, [op |-> "getPostById", pc |-> "save", id |-> id, user |-> NoUser,
                      views |-> posts[id].views + 1,
                      likes |-> posts[id].likes,
                      seen |-> hist[id].writes])
    /\ UNCHANGED <<posts, comments, nextPost, nextComment, now, hist>>

\* post.save() after post.views += 1: the modified path is written,
\* { $set: { views: <value computed by the handler> } }
SaveViews(doc, views) == [doc EXCEPT !.views = views]

GetPostByIdSave(s) ==
    LET r == reqs[s] IN
    /\ r.op = "getPostById" /\ r.pc = "save"
    /\ IF r.id \notin PostIds
         THEN /\ Done(s, [op |-> r.op, status |-> 500, message |-> "DocumentNotFoundError"])
              /\ UNCHANGED <<posts, hist>>
       ELSE /\ posts' = [posts EXCEPT ![r.id] = SaveViews(@, r.views)]
            /\ hist' = [hist EXCEPT ![r.id].writes = @ + 1, ![r.id].gets = @ + 1,
                                    ![r.id].last = [op |-> "view"]]
            /\ Done(s, [op |-> r.op, status |-> 200, id |-> r.id, views |-> r.views,
                        likes |-> Len(r.likes),
                        userHasLiked |-> UserHasLiked(r.user, r.likes)])
    /\ UNCHANGED <<comments, nextPost, nextComment, now, budget>>

\* ---- likePost (PUT /api/posts/:id/like)
\* post.likes.filter(id => id.toString() !== userId.toString())
RECURSIVE FilterOut(_, _)
FilterOut(likes, u) ==
    IF likes = <<>> THEN <<>>
    ELSE IF Head(likes) = u THEN FilterOut(Tail(likes), u)
    ELSE <<Head(likes)>> \o FilterOut(Tail(likes), u)

LikePostFind(s, u, id) ==
    /\ FreeSlot(s)
    /\ budget' = budget - 1
    /\ IF id = Malformed
         THEN Done(s, [op |-> "likePost", status |-> 500, message |-> "CastError"])
       ELSE IF id \notin PostIds
         THEN Done(s, [op |-> "likePost", status |-> 404, message |-> "Post not found"])
       ELSE LET post == posts[id]
                isLiked == u \in RangeOf(post.likes)
            IN  Await(s, [op |-> "likePost", pc |-> "save", id |-> id, user |-> u,
                          isLiked |-> isLiked,
                          before |-> post.likes,
                          likes |-> IF isLiked THEN FilterOut(post.likes, u)
                                    ELSE Append(post.likes, u),
                          v |-> post.v,
                          seen |-> hist[id].writes])
    /\ UNCHANGED <<posts, comments, nextPost, nextComment, now, hist>>

\* post.save() after post.likes.push(userId): the array records the push and
\* the save sends { $push: { likes: userId }, $inc: { __v: 1 } }, applied to
\* the stored array whatever it holds by then.
SavePush(doc, u) == [doc EXCEPT !.likes = Append(@, u), !.v = @ + 1]

\* post.save() after post.likes = <filtered array>: the whole array is set,
\* { $set: { likes: [...] }, $inc: { __v: 1 } } where __v is the version read.
SaveSet(doc, likes) == [doc EXCEPT !.likes = likes, !.v = @ + 1]

LikePostSave(s) ==
    LET r == reqs[s] IN
    /\ r.op = "likePost" /\ r.pc = "save"
    /\ IF r.id \notin PostIds
         THEN /\ Done(s, [op |-> r.op, status |-> 500, message |-> "DocumentNotFoundError"])
              /\ UNCHANGED <<posts, hist>>
       ELSE IF r.isLiked /\ posts[r.id].v # r.v
         THEN /\ Done(s, [op |-> r.op, status |-> 500, message |-> "VersionError"])
              /\ UNCHANGED <<posts, hist>>
       ELSE /\ posts' = [posts EXCEPT ![r.id] =
                           IF r.isLiked THEN SaveSet(@, r.likes) ELSE SavePush(@, r.user)]
            /\ hist' = [hist EXCEPT
                           ![r.id].writes = @ + 1,
                           ![r.id].last =
                               [op |-> "like", user |-> r.user,
                                clean |-> (r.seen = hist[r.id].writes),
                                before |-> r.before,
                                after |-> posts'[r.id].likes,
                                liked |-> ~r.isLiked,
                                prev |-> Flat(hist[r.id].last)]]
            /\ Done(s, [op |-> r.op, status |-> 200, id |-> r.id, user |-> r.user,
                        liked |-> ~r.isLiked, likesCount |-> Len(r.likes),
                        message |-> IF r.isLiked THEN "Post unliked" ELSE "Post liked"])
    /\ UNCHANGED <<comments, nextPost, nextComment, now, budget>>

\* ---- deletePost (DELETE /api/posts/:id)
\* post.author.toString() === req.user._id.toString()
OwnsPost(post, u) == post.author = u

DeletePostFind(s, u, id) ==
    /\ FreeSlot(s)
    /\ budget' = budget - 1
    /\ IF id = Malformed
         THEN Done(s, [op |-> "deletePost", status |-> 500, message |-> "CastError"])
       ELSE IF id \notin PostIds
         THEN Done(s, [op |-> "deletePost", status |-> 404, message |-> "Post not found"])
       ELSE IF ~OwnsPost(posts[id], u)
         THEN Done(s, [op |-> "deletePost", status |-> 401, id |-> id, user |-> u,
                       message |-> "Not authorized to delete this post"])
       ELSE Await(s, [op |-> "deletePost", pc |-> "deleteOne", id |-> id, user |-> u])
    /\ UNCHANGED <<posts, comments, nextPost, nextComment, now, hist>>

DeletePostDeleteOne(s) ==
    LET r == reqs[s] IN
    /\ r.op = "deletePost" /\ r.pc = "deleteOne"
    /\ posts' = Without(posts, {r.id})
    /\ hist' = IF r.id \in PostIds
                 THEN [hist EXCEPT ![r.id].writes = @ + 1, ![r.id].last = [op |-> "delete"]]
                 ELSE hist
    /\ Done(s, [op |-> r.op, status |-> 200, id |-> r.id, user |-> r.user,
                message |-> "Post removed"])
    /\ UNCHANGED <<comments, nextPost, nextComment, now, budget>>

\* ---- createPost (POST /api/posts)
CreatesInFlight == Cardinality({t \in Slots : reqs[t].op = "createPost"})

ReceiveCreatePost(s, u, title, content) ==
    /\ FreeSlot(s)
    /\ nextPost + CreatesInFlight <= MaxPosts
    /\ budget' = budget - 1
    /\ IF title.kind # "string"
         THEN \* title.toLowerCase() throws before anything is awaited
              Done(s, [op |-> "createPost", status |-> 500, message |-> "TypeError"])
       ELSE Await(s, [op |-> "createPost", pc |-> "create", user |-> u,
                      title |-> title.s, slug |-> Slugify(title.s), content |-> content])
    /\ UNCHANGED <<posts, comments, nextPost, nextComment, now, hist>>

\* Document validation, run by Post.create before the insert: title (trimmed),
\* slug and content_html are required, and a required string is not empty.
ValidPost(title, slug, content) ==
    /\ Trim(title) # <<>>
    /\ slug # <<>>
    /\ Truthy(content)

\* (SlugTaken without the unique index)
NoUniqueIndex(slug) == FALSE

\* The unique index on slug (PostSchema.slug, unique: true)
SlugTaken(slug) == \E p \in PostIds : posts[p].slug = slug

CreatePostCreate(s) ==
    LET r == reqs[s] IN
    /\ r.op = "createPost" /\ r.pc = "create"
    /\ IF ~ValidPost(r.title, r.slug, r.content)
         THEN /\ Done(s, [op |-> r.op, status |-> 500, slug |-> r.slug,
                          message |-> "ValidationError"])
              /\ UNCHANGED <<posts, nextPost, hist>>
       ELSE IF SlugTaken(r.slug)
         THEN \* error.code === 11000
              /\ Done(s, [op |-> r.op, status |-> 400, slug |-> r.slug,
                          message |-> "A post with this title already exists"])
              /\ UNCHANGED <<posts, nextPost, hist>>
       ELSE /\ posts' = With(posts, nextPost,
                             NewPost(Trim(r.title), r.slug, r.user, "published", now))
            /\ hist' = With(hist, nextPost, NewHist(0))
            /\ nextPost' = nextPost + 1
            /\ Done(s, [op |-> r.op, status |-> 201, id |-> nextPost, slug |-> r.slug,
                        title |-> Trim(r.title)])
    /\ UNCHANGED <<comments, nextComment, now, budget>>

\* ================================================================ comments
CommentContentInputs ==
    {Undefined, Num(7), Str(<<>>), Str(<<" ">>), Str(<<"a">>), Str(<<" ", "a", " ">>)}
CommentPostIdInputs == {1, 2, 3, Malformed}
CommentIdInputs == (1..MaxComments) \cup {Malformed}
ParentIdInputs == {Null, Malformed, 1, 2, 9}

\* ---- createComment (POST /api/comments/post/:postId)
CreateCommentFind(s, u, postId, content, parentId) ==
    /\ FreeSlot(s)
    /\ nextComment + Cardinality({t \in Slots : reqs[t].op = "createComment"}) <= MaxComments
    /\ budget' = budget - 1
    /\ IF ~Truthy(content)
         THEN Done(s, [op |-> "createComment", status |-> 400,
                       message |-> "Comment content is required"])
       ELSE IF content.kind # "string"
         THEN \* content.trim is not a function
              Done(s, [op |-> "createComment", status |-> 500, message |-> "TypeError"])
       ELSE IF Len(Trim(content.s)) = 0
         THEN Done(s, [op |-> "createComment", status |-> 400,
                       message |-> "Comment content is required"])
       ELSE IF postId = Malformed
         THEN Done(s, [op |-> "createComment", status |-> 500, message |-> "CastError"])
       ELSE IF postId \notin PostIds
         THEN Done(s, [op |-> "createComment", status |-> 404, message |-> "Post not found"])
       ELSE Await(s, [op |-> "createComment", pc |-> "create", user |-> u,
                      postId |-> postId, content |-> content.s, parentId |-> parentId])
    /\ UNCHANGED <<posts, comments, nextPost, nextComment, now, hist>>

\* (CommentData with the content as it was sent)
CommentDataUntrimmed(r) == NewComment(r.postId, r.user, r.content, r.parentId)

\* the commentData object; parent: parentId || null
CommentData(r) == NewComment(r.postId, r.user, Trim(r.content), r.parentId)

CreateCommentCreate(s) ==
    LET r == reqs[s] IN
    /\ r.op = "createComment" /\ r.pc = "create"
    /\ IF CommentData(r).parent = Malformed
         THEN \* the parent path does not cast to an ObjectId
              /\ Done(s, [op |-> r.op, status |-> 500, message |-> "ValidationError"])
              /\ UNCHANGED <<comments, nextComment>>
       ELSE /\ comments' = With(comments, nextComment, CommentData(r))
            /\ nextComment' = nextComment + 1
            /\ Done(s, [op |-> r.op, status |-> 201, id |-> nextComment,
                        comment |-> CommentData(r)])
    /\ UNCHANGED <<posts, nextPost, now, budget, hist>>

\* ---- deleteComment (DELETE /api/comments/:id)
\* (OwnsComment with the ownership check left out)
AnyoneOwnsComment(comment, u) == TRUE

\* comment.user.toString() === req.user._id.toString()
OwnsComment(comment, u) == comment.user = u

DeleteCommentFind(s, u, id) ==
    /\ FreeSlot(s)
    /\ budget' = budget - 1
    /\ IF id = Malformed
         THEN Done(s, [op |-> "deleteComment", status |-> 500, message |-> "CastError"])
       ELSE IF id \notin CommentIds
         THEN Done(s, [op |-> "deleteComment", status |-> 404,
                       message |-> "Comment not found"])
       ELSE IF ~OwnsComment(comments[id], u)
         THEN Done(s, [op |-> "deleteComment", status |-> 401, id |-> id, user |-> u,
                       message |-> "Not authorized to delete this comment"])
       ELSE Await(s, [op |-> "deleteComment", pc |-> "deleteMany", id |-> id, user |-> u])
    /\ UNCHANGED <<posts, comments, nextPost, nextComment, now, hist>>

\* (DeleteFilter that follows the replies of replies too)
RECURSIVE Subtree(_, _)
Subtree(roots, n) ==
    IF n = 0 THEN roots
    ELSE Subtree(roots \cup {c \in CommentIds : comments[c].parent \in roots}, n - 1)
DeleteSubtree(id) == Subtree({id} \cap CommentIds, Cardinality(CommentIds))

\* The filter of Comment.deleteMany: { $or: [{ _id: id }, { parent: id }] }
DeleteFilter(id) == {c \in CommentIds : c = id \/ comments[c].parent = id}

DeleteCommentDeleteMany(s) ==
    LET r == reqs[s] IN
    /\ r.op = "deleteComment" /\ r.pc = "deleteMany"
    /\ comments' = Without(comments, DeleteFilter(r.id))
    /\ Done(s, [op |-> r.op, status |-> 200, id |-> r.id, user |-> r.user,
                message |-> "Comment removed"])
    /\ UNCHANGED <<posts, nextPost, nextComment, now, budget, hist>>

\* ========================================================= getTrendingPosts
\* Scores are kept in tenths of a point, so that the decay of 0.1 point per
\* hour is 1 per hour; times are in hours.
ScoreScale == 10
LikeWeight == 3
GraceHours == 24
DefaultLimit == 4

\* const limit = parseInt(req.query.limit) || 4
\* (a query value that is absent or no number parses to NaN)
ParseLimit(q) ==
    IF q.kind = "number" /\ q.n # 0 THEN q.n ELSE DefaultLimit

\* agePenalty = hoursSincePosted > 24 ? (hoursSincePosted - 24) * 0.1 : 0
AgePenalty(hoursSincePosted) ==
    IF hoursSincePosted > GraceHours THEN hoursSincePosted - GraceHours ELSE 0

\* trendingScore = (post.views * 1) + (post.likes.length * 3) - agePenalty
TrendingScore(post, t) ==
    post.views * ScoreScale + Len(post.likes) * LikeWeight * ScoreScale
        - AgePenalty(t - post.created_at)

\* Post.find({ status: 'published' }), in _id order
RECURSIVE FindPublished(_)
FindPublished(ids) ==
    IF ids = {} THEN <<>>
    ELSE LET m == CHOOSE x \in ids : \A y \in ids : x <= y
             rest == FindPublished(ids \ {m})
         IN  IF posts[m].status = "published" THEN <<[id |-> m, doc |-> posts[m]]>> \o rest
             ELSE rest

WithScore(e, t) ==
    [id |-> e.id, doc |-> e.doc, trendingScore |-> TrendingScore(e.doc, t),
     hoursSincePosted |-> t - e.doc.created_at]

\* (Compare without the tiebreaker)
CompareScoreOnly(a, b) == b.trendingScore - a.trendingScore

\* the comparator given to sort: negative when a goes before b
Compare(a, b) ==
    IF b.trendingScore # a.trendingScore
      THEN b.trendingScore - a.trendingScore
      ELSE b.doc.created_at - a.doc.created_at

\* Array.prototype.sort is stable: elements that compare equal keep their order
RECURSIVE InsertSorted(_, _)
InsertSorted(x, s) ==
    IF s = <<>> THEN <<x>>
    ELSE IF Compare(Head(s), x) <= 0 THEN <<Head(s)>> \o InsertSorted(x, Tail(s))
    ELSE <<x>> \o s

RECURSIVE Sorted(_)
Sorted(s) ==
    IF s = <<>> THEN <<>>
    ELSE InsertSorted(s[Len(s)], Sorted(SubSeq(s, 1, Len(s) - 1)))

\* Array.prototype.slice(0, end)
Slice(s, end) ==
    LET e == IF end < 0 THEN (IF Len(s) + end < 0 THEN 0 ELSE Len(s) + end)
             ELSE IF end > Len(s) THEN Len(s) ELSE end
    IN  SubSeq(s, 1, e)

TrendingPosts(q, t) ==
    LET allPosts == FindPublished(PostIds)
        postsWithScores == [i \in 1..Len(allPosts) |-> WithScore(allPosts[i], t)]
        sortedPosts == Slice(Sorted(postsWithScores), ParseLimit(q))
    IN  [i \in 1..Len(sortedPosts) |->
            [id |-> sortedPosts[i].id, rank |-> i,
             createdAt |-> sortedPosts[i].doc.created_at,
             likes |-> Len(sortedPosts[i].doc.likes),
             views |-> sortedPosts[i].doc.views,
             trendingScore |-> sortedPosts[i].trendingScore]]

LimitInputs == {Undefined, Str(<<"a">>)} \cup {Num(n) : n \in -1..MaxLimit}

GetTrendingPosts(q) ==
    /\ budget > 0
    /\ budget' = budget - 1
    /\ resp' = [op |-> "getTrendingPosts", status |-> 200, query |-> q,
                body |-> TrendingPosts(q, now)]
    /\ UNCHANGED <<posts, comments, nextPost, nextComment, now, reqs, hist>>

\* ========================================================== specifications
Quiet ==
    /\ now = 0
    /\ reqs = [s \in Slots |-> Idle]
    /\ resp = NoResp

\* ---- the handlers that write posts, over a store that holds one post
SeedPost(views) == [NewPost(<<"a">>, <<"a">>, 1, "published", 0) EXCEPT !.views = views]

Init ==
    /\ \E v0 \in 0..MaxInitViews :
          /\ posts = (1 :> SeedPost(v0))
          /\ hist = (1 :> NewHist(v0))
    /\ comments = << >>
    /\ nextPost = 2
    /\ nextComment = 1
    /\ budget = MaxRequests
    /\ Quiet

Next ==
    \E s \in Slots :
        \/ \E id \in PostIdInputs : GetPostByIdFind(s, id)
        \/ GetPostByIdSave(s)
        \/ \E u \in Users, id \in PostIdInputs : LikePostFind(s, u, id)
        \/ LikePostSave(s)
        \/ \E u \in Users, id \in PostIdInputs : DeletePostFind(s, u, id)
        \/ DeletePostDeleteOne(s)
        \/ \E u \in Users, t \in TitleInputs, c \in ContentInputs :
              ReceiveCreatePost(s, u, t, c)
        \/ CreatePostCreate(s)

Spec == Init /\ [][Next]_vars

\* ---- createPost and deletePost, over an empty store
InitCreate ==
    /\ posts = << >>
    /\ hist = << >>
    /\ comments = << >>
    /\ nextPost = 1
    /\ nextComment = 1
    /\ budget = MaxCreateRequests
    /\ Quiet

NextCreate ==
    \E s \in Slots :
        \/ \E u \in Users, t \in TitleInputs, c \in ContentInputs :
              ReceiveCreatePost(s, u, t, c)
        \/ CreatePostCreate(s)
        \/ \E u \in Users, id \in PostIdInputs : DeletePostFind(s, u, id)
        \/ DeletePostDeleteOne(s)

SpecCreate == InitCreate /\ [][NextCreate]_vars

\* ---- the slug of createPost: one request on an empty store, its title drawn
\* from SlugTitleInputs.
InitSlug ==
    /\ posts = << >>
    /\ hist = << >>
    /\ comments = << >>
    /\ nextPost = 1
    /\ nextComment = 1
    /\ budget = 1
    /\ Quiet

NextSlug ==
    \E s \in Slots :
        \/ /\ FreeSlot(s)
           /\ \E u \in Users, t \in SlugTitleInputs, c \in ContentInputs :
                 ReceiveCreatePost(s, u, t, c)
        \/ CreatePostCreate(s)

SpecSlug == InitSlug /\ [][NextSlug]_vars

\* ---- the comment handlers and deletePost.  Two posts by different authors
\* and, on post 1, a thread written through createComment: comment 1, its
\* replies 2 and 3, and 4, a reply to 2.
SeedPosts ==
    (1 :> NewPost(<<"a">>, <<"a">>, 1, "published", 0)) @@
    (2 :> NewPost(<<"b">>, <<"b">>, 2, "published", 0))

SeedComments ==
    (1 :> NewComment(1, 1, <<"a">>, Null)) @@
    (2 :> NewComment(1, 2, <<"a">>, 1)) @@
    (3 :> NewComment(1, 1, <<"a">>, 1)) @@
    (4 :> NewComment(1, 2, <<"a">>, 2))

InitComments ==
    /\ posts = SeedPosts
    /\ hist = [p \in DOMAIN SeedPosts |-> NewHist(0)]
    /\ comments = SeedComments
    /\ nextPost = 3
    /\ nextComment = 5
    /\ budget = MaxCommentRequests
    /\ Quiet

NextComments ==
    \E s \in Slots :
        \/ \E u \in Users, p \in CommentPostIdInputs, c \in CommentContentInputs,
              par \in ParentIdInputs : CreateCommentFind(s, u, p, c, par)
        \/ CreateCommentCreate(s)
        \/ \E u \in Users, id \in CommentIdInputs : DeleteCommentFind(s, u, id)
        \/ DeleteCommentDeleteMany(s)
        \/ \E u \in Users, id \in CommentPostIdInputs : DeletePostFind(s, u, id)
        \/ DeletePostDeleteOne(s)

SpecComments == InitComments /\ [][NextComments]_vars

\* ============================================================ likes, views
\* Two collections of user references hold the same members, each as often.
SameCollection(a, b) == \A u \in Users : Count(a, u) = Count(b, u)

\* The last two writes to post p are likePost saves by the same user, each
\* with no write to p between its own read and its save.
TwoLikesInARow(p) ==
    LET e == hist[p].last IN
    /\ e.op = "like" /\ e.clean
    /\ e.prev.op = "like" /\ e.prev.clean
    /\ e.prev.user = e.user

\* C3: two completed likePost calls by one user on one post, with no other
\* write to the post in between, leave the likes collection as it was before
\* the first call; the first call reports liked = (the user was not in likes)
\* and the second call reports the opposite.
C3_LikeTwiceRestoresLikes ==
    \A p \in DOMAIN hist :
        TwoLikesInARow(p) =>
            LET e == hist[p].last IN
            /\ SameCollection(e.after, e.prev.before)
            /\ e.prev.liked = (e.user \notin RangeOf(e.prev.before))
            /\ e.liked = ~e.prev.liked

\* C4: once N getPostById requests for a post have completed and nothing else
\* wrote the post, its stored views equal the initial value + N, and each
\* response reports the value it stored.
C4_ViewsCountReads ==
    /\ \A p \in PostIds :
          hist[p].writes = hist[p].gets =>
              posts[p].views = hist[p].views0 + hist[p].gets
    /\ (resp.op = "getPostById" /\ resp.status = 200 /\ resp.id \in PostIds) =>
          posts[resp.id].views = resp.views

\* C5: no post's likes collection holds the same user more than once.
C5_NoDuplicateLikes ==
    \A p \in PostIds : \A u \in Users : Count(posts[p].likes, u) <= 1

\* C6: in every step, the stored views of every post are greater than or
\* equal to what they were before the step.
C6_ViewsOnlyIncrease ==
    [][\A p \in PostIds \cap DOMAIN posts' : posts'[p].views >= posts[p].views]_vars

\* ---- getTrendingPosts over stores of up to MaxStoredPosts posts, read 48
\* hours after the oldest of them was created: a post is 34 hours old
\* (created_at 14, a penalty of 1 point) or just posted (created_at 48).
PostSamples ==
    { [status |-> "published", views |-> 0, likes |-> <<>>,     created_at |-> 48],
      [status |-> "published", views |-> 1, likes |-> <<>>,     created_at |-> 14],
      [status |-> "published", views |-> 3, likes |-> <<>>,     created_at |-> 48],
      [status |-> "published", views |-> 0, likes |-> <<1>>,    created_at |-> 48],
      [status |-> "published", views |-> 0, likes |-> <<>>,     created_at |-> 14],
      [status |-> "draft",     views |-> 3, likes |-> <<1, 2>>, created_at |-> 48] }

\* post i of a store: a title of its own (slugs are unique), author 1
StoredPost(i, f) ==
    [title |-> [k \in 1..i |-> "a"], slug |-> [k \in 1..i |-> "a"], author |-> 1,
     status |-> f.status, views |-> f.views, likes |-> f.likes, v |-> Len(f.likes),
     created_at |-> f.created_at]

InitTrending ==
    /\ \E n \in 0..MaxStoredPosts : \E f \in [1..n -> PostSamples] :
          \* posts are created in the order of their ids
          /\ \A i, j \in 1..n : i < j => f[i].created_at <= f[j].created_at
          /\ posts = [i \in 1..n |-> StoredPost(i, f[i])]
          /\ hist = [i \in 1..n |-> NewHist(f[i].views)]
          /\ nextPost = n + 1
    /\ comments = << >>
    /\ nextComment = 1
    /\ budget = MaxTrendingRequests
    /\ reqs = [s \in Slots |-> Idle]
    /\ resp = NoResp
    /\ now = 48

NextTrending == \E q \in LimitInputs : GetTrendingPosts(q)

SpecTrending == InitTrending /\ [][NextTrending]_vars

\* ================================================================= deletes
StoreUnchanged == posts' = posts /\ comments' = comments

\* the request in slot s is answered with `status` and nothing of it stays in flight
Answered(s, op, status) ==
    /\ resp'.op = op /\ resp'.status = status
    /\ reqs' = reqs

\* C1: a deletePost or deleteComment request by an identity that is not the
\* author of the document it names is answered with the authorization failure
\* (401) and leaves every post and every comment as it was.
C1_NonOwnerDeleteDenied ==
    [][\A s \in Slots : \A u \in Users :
          /\ \A id \in PostIdInputs \cup CommentPostIdInputs :
                (id \in PostIds /\ posts[id].author # u /\ DeletePostFind(s, u, id))
                    => (Answered(s, "deletePost", 401) /\ StoreUnchanged)
          /\ \A id \in CommentIdInputs :
                (id \in CommentIds /\ comments[id].user # u /\ DeleteCommentFind(s, u, id))
                    => (Answered(s, "deleteComment", 401) /\ StoreUnchanged)]_vars

\* a reply was asked to be deleted by somebody else and the thread is intact
C1_Witness ==
    /\ resp.op = "deleteComment" /\ resp.status = 401
    /\ resp.id = 2 /\ resp.user = 1
    /\ comments = SeedComments /\ posts = SeedPosts

\* C2: the deleteMany of a deleteComment on comment c removes c and every
\* comment whose parent is c, whoever wrote it, and nothing else: every other
\* comment, a reply to a reply of c included, is still stored unchanged.
C2_DeleteRemovesCommentAndDirectReplies ==
    [][\A s \in Slots :
          DeleteCommentDeleteMany(s) =>
              LET c == reqs[s].id
                  replies == {x \in CommentIds : comments[x].parent = c}
                  deeper == {x \in CommentIds : comments[x].parent \in replies}
              IN  /\ DOMAIN comments' = CommentIds \ ({c} \cup replies)
                  /\ \A x \in DOMAIN comments' : comments'[x] = comments[x]
                  /\ (deeper \ ({c} \cup replies)) \subseteq DOMAIN comments'
                  /\ posts' = posts
                  /\ resp'.op = "deleteComment" /\ resp'.status = 200]_vars

\* comment 1 with its two direct replies is gone (three documents); comment 4,
\* a reply to reply 2, is still there
C2_Witness ==
    /\ resp.op = "deleteComment" /\ resp.status = 200 /\ resp.id = 1
    /\ DOMAIN comments = {4}
    /\ comments[4] = SeedComments[4]

\* C9: every stored comment whose parent is not null references a comment that
\* is stored and belongs to the same post.
C9_ParentExistsOnSamePost ==
    \A c \in CommentIds :
        comments[c].parent # Null =>
            /\ comments[c].parent \in CommentIds
            /\ comments[comments[c].parent].post = comments[c].post

\* =========================================================== createComment
\* missing, empty or whitespace-only content
BlankContent(c) ==
    \/ c.kind = "undefined"
    \/ c.kind = "string" /\ Trim(c.s) = <<>>

\* the request goes on to its insert, carrying what it was given
Accepted(s, u, p, c, par) ==
    /\ c.kind = "string"
    /\ reqs' = [reqs EXCEPT ![s] =
                  [op |-> "createComment", pc |-> "create", user |-> u,
                   postId |-> p, content |-> c.s, parentId |-> par]]
    /\ StoreUnchanged

\* exactly one comment is added, with the fields of the request in slot s
AddedOne(s) ==
    LET r == reqs[s]
        new == (DOMAIN comments') \ CommentIds
    IN  /\ CommentIds \subseteq DOMAIN comments'
        /\ \A x \in CommentIds : comments'[x] = comments[x]
        /\ Cardinality(new) = 1
        /\ \A n \in new :
              /\ comments'[n].post = r.postId
              /\ comments'[n].user = r.user
              /\ comments'[n].content = Trim(r.content)
              /\ comments'[n].parent = r.parentId
        /\ posts' = posts
        /\ resp'.op = "createComment" /\ resp'.status = 201

SlugsUnique ==
    \A p, q \in PostIds : p # q => posts[p].slug # posts[q].slug

Conflict(s) ==
    /\ resp'.op = "createPost" /\ resp'.status = 400
    /\ resp'.message = "A post with this title already exists"
    /\ reqs'[s] = Idle
    /\ posts' = posts

\* C7 as written: no two stored posts have the same slug, and a createPost
\* whose slug is the slug of a stored post fails with the conflict error and
\* stores and changes nothing.
C7_Original ==
    /\ []SlugsUnique
    /\ [][\A s \in Slots :
             (CreatePostCreate(s) /\ SlugTaken(reqs[s].slug)) => Conflict(s)]_vars

\* C7, amended: the conflict error is the answer when the post is otherwise
\* valid (its content is present); without content the request fails with a
\* server error instead.  Either way nothing is stored or changed.  A valid
\* createPost whose slug is free stores exactly one post, so of two requests
\* in flight with the same slug the first to insert succeeds and the other
\* gets the conflict.
C7_SlugUnique ==
    /\ []SlugsUnique
    /\ [][\A s \in Slots :
             CreatePostCreate(s) =>
                 LET r == reqs[s] IN
                 IF ~Truthy(r.content)
                   THEN /\ resp'.op = "createPost" /\ resp'.status = 500
                        /\ reqs'[s] = Idle /\ posts' = posts
                 ELSE IF SlugTaken(r.slug)
                   THEN Conflict(s)
                 ELSE IF r.slug # <<>>
                   THEN /\ resp'.op = "createPost" /\ resp'.status = 201
                        /\ Cardinality((DOMAIN posts') \ PostIds) = 1
                        /\ \A n \in (DOMAIN posts') \ PostIds : posts'[n].slug = r.slug
                        /\ \A p \in PostIds : p \in DOMAIN posts' /\ posts'[p] = posts[p]
                 ELSE posts' = posts]_vars

\* a request whose slug is the slug of a stored post got the conflict while
\* another request with that slug is still in flight
C7_Witness ==
    /\ resp.op = "createPost" /\ resp.status = 400
    /\ SlugTaken(resp.slug)
    /\ \E s \in Slots : reqs[s].op = "createPost" /\ reqs[s].slug = resp.slug

\* ================================================================ trending
Published == {p \in PostIds : posts[p].status = "published"}

\* views + 3 x likes - max(0, hoursSincePosted - 24) x 0.1, in tenths
ScoreOf(views, likes, hours) ==
    10 * views + 30 * likes - (IF hours - 24 > 0 THEN hours - 24 ELSE 0)

ScoreOfPost(p) == ScoreOf(posts[p].views, Len(posts[p].likes), now - posts[p].created_at)

\* p is listed strictly before q: higher score, or equal score and newer
RanksBefore(p, q) ==
    \/ ScoreOfPost(p) > ScoreOfPost(q)
    \/ ScoreOfPost(p) = ScoreOfPost(q) /\ posts[p].created_at > posts[q].created_at

\* C8: for a positive limit N (4 when none is given) getTrendingPosts returns
\* published posts only, each with its score, in descending score order with
\* equal scores newer first, ranked 1..k, and they are the first
\* k = min(N, number of published posts) of that order.  A post with 10 views
\* and 2 likes scores 16 when just posted and 13.6 when 48 hours old.
C8_TrendingTopN ==
    /\ (resp.op = "getTrendingPosts"
          /\ (resp.query.kind = "undefined" \/ (resp.query.kind = "number" /\ resp.query.n > 0)))
       => LET N == IF resp.query.kind = "number" THEN resp.query.n ELSE 4
              res == resp.body
              k == IF N < Cardinality(Published) THEN N ELSE Cardinality(Published)
              listed == {res[i].id : i \in 1..Len(res)}
          IN  /\ Len(res) = k
              /\ Cardinality(listed) = k
              /\ listed \subseteq Published
              /\ \A i \in 1..Len(res) :
                    /\ res[i].rank = i
                    /\ res[i].trendingScore = ScoreOfPost(res[i].id)
                    /\ res[i].views = posts[res[i].id].views
                    /\ res[i].likes = Len(posts[res[i].id].likes)
              /\ \A i, j \in 1..Len(res) : i < j => ~RanksBefore(res[j].id, res[i].id)
              /\ \A p \in Published \ listed : \A i \in 1..Len(res) :
                    ~RanksBefore(p, res[i].id)
    /\ TrendingScore([views |-> 10, likes |-> <<1, 2>>, created_at |-> now], now) = 160
    /\ TrendingScore([views |-> 10, likes |-> <<1, 2>>, created_at |-> now - 48], now) = 136

\* five published posts, no limit given: four are listed, the one left out
\* and two of the listed ones have the same score
C8_Witness ==
    /\ resp.op = "getTrendingPosts" /\ resp.query.kind = "undefined"
    /\ Cardinality(Published) = 5
    /\ Len(resp.body) = 4
    /\ \E i, j \in 1..4 : i < j /\ resp.body[i].trendingScore = resp.body[j].trendingScore
                          /\ resp.body[i].createdAt > resp.body[j].createdAt
    /\ \E p \in Published : ScoreOfPost(p) = resp.body[4].trendingScore
                            /\ \A i \in 1..4 : resp.body[i].id # p

\* --------------------------------------------------------------------- C11
\* The slug the claim describes, position by position: the alphanumeric
\* characters of the lowercased title in order, with one hyphen between two
\* maximal alphanumeric runs and nothing before the first or after the last.
Alnum(c) == c \in {"a", "b", "d", "e", "h", "l", "o", "r", "w", "0", "1"}
AlnumAt(l) == {i \in 1..Len(l) : Alnum(l[i])}
RunStarts(l) == {i \in AlnumAt(l) : i = 1 \/ ~Alnum(l[i - 1])}
SlugPos(l, i) ==
    Cardinality({j \in AlnumAt(l) : j <= i})
      + Cardinality({j \in RunStarts(l) : j <= i}) - 1
IsSlugOf(slug, title) ==
    LET l == ToLowerCase(title)
        runs == Cardinality(RunStarts(l))
        at == {SlugPos(l, i) : i \in AlnumAt(l)}
    IN  /\ Len(slug) = Cardinality(AlnumAt(l)) + (IF runs = 0 THEN 0 ELSE runs - 1)
        /\ \A i \in AlnumAt(l) : slug[SlugPos(l, i)] = l[i]
        /\ \A k \in (1..Len(slug)) \ at : slug[k] = "-"
WellFormedSlug(slug) ==
    /\ \A k \in 1..Len(slug) : Alnum(slug[k]) \/ slug[k] = "-"
    /\ \A k \in 1..(Len(slug) - 1) : ~(slug[k] = "-" /\ slug[k + 1] = "-")
    /\ slug # <<>> => slug[1] # "-" /\ slug[Len(slug)] # "-"

\* C11: the slug createPost derives from a title is the lowercased title with
\* each maximal run of characters outside [a-z0-9] replaced by one hyphen and
\* the leading and trailing hyphen removed: it holds only [a-z0-9-], has no
\* two adjacent hyphens and neither starts nor ends with a hyphen, in the
\* request and in the post that is stored; "Hello, World!" gives
\* "hello-world".
C11_SlugOfTitle ==
    /\ \A s \in Slots : reqs[s].op = "createPost"
          => IsSlugOf(reqs[s].slug, reqs[s].title) /\ WellFormedSlug(reqs[s].slug)
    /\ \A p \in PostIds :
          IsSlugOf(posts[p].slug, posts[p].title) /\ WellFormedSlug(posts[p].slug)
    /\ Slugify(<<"H", "e", "l", "l", "o", ",", " ", "W", "o", "r", "l", "d", "!">>)
          = <<"h", "e", "l", "l", "o", "-", "w", "o", "r", "l", "d">>

\* a createPost in flight whose title starts with a space, has an upper-case
\* letter, a run of two characters outside [a-z0-9] and a trailing hyphen
C11_Witness ==
    \E s \in Slots :
        /\ reqs[s].op = "createPost"
        /\ reqs[s].title = <<" ", "A", "-", " ", "0">>
        /\ reqs[s].slug = <<"a", "-", "0">>

\* a stored post whose title ended in a run outside [a-z0-9]
C11_WitnessStored ==
    \E p \in PostIds : posts[p].title = <<"a", " ", "A", "-", "-">>
                         /\ posts[p].slug = <<"a", "-", "a">>

====
